---- MODULE Spec2Model ----
(***************************************************************************)
(* gitweb-release-downloader (grd): one run of the program, from main to   *)
(* process exit.  The release/asset selection (find_release, find_asset,   *)
(* find_assets_in_release), the two command paths that use it              *)
(* (download_assets, print_assets) and the streamed transfer               *)
(* (stream_response_into_file) are translated from src/src/main.rs, as are *)
(* the URLs and the requests (get_releases_api_url, make_get_request); the *)
(* parsing of the repository argument (guess_website_type,                 *)
(* parse_repository) is translated from src/src/arguments.rs.              *)
(* The network, the file system and the argument parser are the            *)
(* environment: each of their outcomes is a disjunct of the action that    *)
(* calls them.                                                             *)
(***************************************************************************)
EXTENDS Integers, Sequences, FiniteSets, TLC

(***************************************************************************)
(* Bounds of the model.                                                    *)
(***************************************************************************)
\* Longest release listing the forge returns.
MaxReleases == 2
\* Response bodies are up to MaxFullChunks buffers long, plus one byte.
MaxFullChunks == 1
\* How many reads or writes of one transfer may come back short.
MaxShortIO == 1
\* Most path segments between the host and the owner of a repository string.
MaxSegments == 1
\* Longest list of headers given on the command line.
MaxHeaders == 2

(***************************************************************************)
(* Option<T>: None is the empty sequence, Some(x) the one-element one.     *)
(***************************************************************************)
None == << >>
Some(x) == << x >>
Unwrap(o) == o[1]

(***************************************************************************)
(* models/json.rs: Release and Asset.  The universe of the model: two tag  *)
(* names that differ only in case, two assets whose names share the        *)
(* prefix "a.".  A release lists each asset at most once.                  *)
(***************************************************************************)
Tags == {"v1", "V1"}

AssetZip ==
    [id |-> 1, name |-> "a.zip", browser_download_url |-> << "h", "t", "t", "p", "s", ":", "/", "/", "h", "/", "a", ".", "z", "i", "p" >>]
AssetTar ==
    [id |-> 2, name |-> "a.tar.gz",
     browser_download_url |-> << "h", "t", "t", "p", "s", ":", "/", "/", "h", "/", "a", ".", "t", "a", "r", ".", "g", "z" >>]
Asset == {AssetZip, AssetTar}

\* The characters of an asset name, as the regex engine sees them.
NameChars(name) ==
    CASE name = "a.zip" -> << "a", ".", "z", "i", "p" >>
      [] name = "a.tar.gz" -> << "a", ".", "t", "a", "r", ".", "g", "z" >>

AssetLists ==
    { s \in UNION { [1..n -> Asset] : n \in 0..Cardinality(Asset) } :
        \A i, j \in DOMAIN s : s[i] = s[j] => i = j }

Release == [tag_name : Tags, prerelease : BOOLEAN, assets : AssetLists]

ReleaseLists == UNION { [1..n -> Release] : n \in 0..MaxReleases }

(***************************************************************************)
(* Regex::new and Regex::is_match, for the patterns of the model: a        *)
(* pattern is a sequence of characters; "\" escapes the next character,    *)
(* "." matches any character, "(" opens a group (never closed in the       *)
(* patterns modelled, a compile error), every other character matches      *)
(* itself.  A compiled pattern is the sequence of its atoms.               *)
(***************************************************************************)
AnyChar == "ANY"

PatternAEscDot == << "a", "\\", "." >>
PatternZip == << "z", "i", "p" >>
PatternUnclosed == << "(" >>
Patterns == {PatternAEscDot, PatternZip, PatternUnclosed}

RECURSIVE RegexNewFrom(_, _)
RegexNewFrom(p, i) ==
    IF i > Len(p) THEN Some(<< >>)
    ELSE IF p[i] = "(" THEN None
    ELSE IF p[i] = "\\"
         THEN IF i = Len(p) THEN None
              ELSE LET rest == RegexNewFrom(p, i + 2)
                   IN  IF rest = None THEN None
                       ELSE Some(<< p[i + 1] >> \o Unwrap(rest))
    ELSE LET rest == RegexNewFrom(p, i + 1)
             atom == IF p[i] = "." THEN AnyChar ELSE p[i]
         IN  IF rest = None THEN None ELSE Some(<< atom >> \o Unwrap(rest))

\* Regex::new(pattern): Some(compiled) or None (the Err case).
RegexNew(p) == RegexNewFrom(p, 1)

\* Regex::is_match: unanchored, the atoms match at some offset of the text.
IsMatch(regex, name) ==
    LET text == NameChars(name)
    IN  \E off \in 0..(Len(text) - Len(regex)) :
            \A k \in 1..Len(regex) :
                regex[k] = AnyChar \/ regex[k] = text[off + k]

(***************************************************************************)
(* find_release: the loop over the listing, in listing order.  The result  *)
(* is a reference into the listing, modelled as Some(index) or None.       *)
(***************************************************************************)
RECURSIVE FindReleaseFrom(_, _, _, _)
FindReleaseFrom(rels, i, tag, allow_pre) ==
    IF i > Len(rels) THEN None
    ELSE IF rels[i].prerelease /\ ~allow_pre
         THEN FindReleaseFrom(rels, i + 1, tag, allow_pre)
    ELSE IF tag = None THEN Some(i)
    ELSE IF rels[i].tag_name = Unwrap(tag) THEN Some(i)
    ELSE FindReleaseFrom(rels, i + 1, tag, allow_pre)

\* Mutants of find_release: the first visible release returned whatever its
\* tag; prereleases never skipped.
FindReleaseIgnoresTag(rels, tag, allow_pre) ==
    FindReleaseFrom(rels, 1, None, allow_pre)
FindReleaseKeepsPrereleases(rels, tag, allow_pre) ==
    FindReleaseFrom(rels, 1, tag, TRUE)

FindRelease(rels, tag, allow_pre) == FindReleaseFrom(rels, 1, tag, allow_pre)

(***************************************************************************)
(* Iterator::find over release.assets: the first asset whose name matches, *)
(* as Some(index into the asset list) or None.                             *)
(***************************************************************************)
RECURSIVE FindMatchFrom(_, _, _)
FindMatchFrom(assets, i, regex) ==
    IF i > Len(assets) THEN None
    ELSE IF IsMatch(regex, assets[i].name) THEN Some(i)
    ELSE FindMatchFrom(assets, i + 1, regex)

\* Mutant of find_asset: the last matching asset instead of the first.
RECURSIVE FindLastMatchFrom(_, _, _)
FindLastMatchFrom(assets, i, regex) ==
    IF i < 1 THEN None
    ELSE IF IsMatch(regex, assets[i].name) THEN Some(i)
    ELSE FindLastMatchFrom(assets, i - 1, regex)
FindAssetLast(rels, tag, allow_pre, regex) ==
    LET r == FindRelease(rels, tag, allow_pre)
    IN  IF r = None THEN None
        ELSE LET a == FindLastMatchFrom(rels[Unwrap(r)].assets,
                                        Len(rels[Unwrap(r)].assets), regex)
             IN  IF a = None THEN None ELSE Some(<< Unwrap(r), Unwrap(a) >>)

\* Mutant of find_asset: the releases after the chosen one are searched too,
\* until one that passes the tag and prerelease tests has a matching asset.
RECURSIVE FindAssetAnyReleaseFrom(_, _, _, _, _)
FindAssetAnyReleaseFrom(rels, i, tag, allow_pre, regex) ==
    LET r == FindReleaseFrom(rels, i, tag, allow_pre)
    IN  IF r = None THEN None
        ELSE LET a == FindMatchFrom(rels[Unwrap(r)].assets, 1, regex)
             IN  IF a # None THEN Some(<< Unwrap(r), Unwrap(a) >>)
                 ELSE FindAssetAnyReleaseFrom(rels, Unwrap(r) + 1, tag, allow_pre,
                                              regex)
FindAssetAnyRelease(rels, tag, allow_pre, regex) ==
    FindAssetAnyReleaseFrom(rels, 1, tag, allow_pre, regex)
\* find_asset: Some(<<release index, asset index>>) or None.
FindAsset(rels, tag, allow_pre, regex) ==
    LET r == FindRelease(rels, tag, allow_pre)
    IN  IF r = None THEN None
        ELSE LET a == FindMatchFrom(rels[Unwrap(r)].assets, 1, regex)
             IN  IF a = None THEN None ELSE Some(<< Unwrap(r), Unwrap(a) >>)

\* find_assets_in_release: the matching assets, in the release's order.
RECURSIVE FindAssetsFrom(_, _, _)
FindAssetsFrom(assets, i, regex) ==
    IF i > Len(assets) THEN << >>
    ELSE IF IsMatch(regex, assets[i].name)
         THEN << assets[i] >> \o FindAssetsFrom(assets, i + 1, regex)
    ELSE FindAssetsFrom(assets, i + 1, regex)

\* Mutant of find_assets_in_release: a match is put in front of the earlier
\* ones.
RECURSIVE FindAssetsReversedFrom(_, _, _)
FindAssetsReversedFrom(assets, i, regex) ==
    IF i > Len(assets) THEN << >>
    ELSE IF IsMatch(regex, assets[i].name)
         THEN FindAssetsReversedFrom(assets, i + 1, regex) \o << assets[i] >>
    ELSE FindAssetsReversedFrom(assets, i + 1, regex)
FindAssetsInReleaseReversed(rel, regex) ==
    FindAssetsReversedFrom(rel.assets, 1, regex)
FindAssetsInRelease(rel, regex) == FindAssetsFrom(rel.assets, 1, regex)

(***************************************************************************)
(* Strings of the command line and of the requests: sequences of           *)
(* characters.                                                             *)
(***************************************************************************)
StartsWith(s, p) == Len(s) >= Len(p) /\ SubSeq(s, 1, Len(p)) = p

\* The atoms match the text right after its first `off` characters.
MatchAt(atoms, text, off) ==
    /\ Len(text) >= off + Len(atoms)
    /\ \A k \in 1..Len(atoms) : atoms[k] = AnyChar \/ atoms[k] = text[off + k]

\* text[from..to] is one path segment: not empty, no "/".
IsSegment(text, from, to) ==
    /\ from <= to
    /\ \A k \in from..to : text[k] # "/"

HttpPrefix == << "h", "t", "t", "p", ":", "/", "/" >>
HttpsPrefix == << "h", "t", "t", "p", "s", ":", "/", "/" >>

\* (https?://)? at the start of a pattern: where the rest of the pattern may
\* start.  The group is tried first, then skipped.
SchemeEnds(s) ==
    {0} \cup (IF StartsWith(s, HttpPrefix) THEN {Len(HttpPrefix)} ELSE {})
        \cup (IF StartsWith(s, HttpsPrefix) THEN {Len(HttpsPrefix)} ELSE {})

\* The greatest element of a non-empty set of numbers.
Max(S) == CHOOSE i \in S : \A j \in S : j <= i

(***************************************************************************)
(* arguments.rs: guess_website_type.  The two patterns are                 *)
(* ^(https?://)?github.com/.* and ^(https?://)?gitlab.com/.* : the dot     *)
(* before "com" is not escaped.                                            *)
(***************************************************************************)
GuessGithubAtoms == Unwrap(RegexNew(<< "g", "i", "t", "h", "u", "b", ".", "c", "o", "m", "/" >>))
GuessGitlabComAtoms == Unwrap(RegexNew(<< "g", "i", "t", "l", "a", "b", ".", "c", "o", "m", "/" >>))

GuessWebsiteType(repository_string) ==
    IF \E off \in SchemeEnds(repository_string) :
            MatchAt(GuessGithubAtoms, repository_string, off)
       THEN Some("GitHub")
    ELSE IF \E off \in SchemeEnds(repository_string) :
            MatchAt(GuessGitlabComAtoms, repository_string, off)
       THEN Some("GitLab")
    ELSE None

(***************************************************************************)
(* arguments.rs: the GitHub pattern                                        *)
(* ^((https?://)?github\.com/)?(?P<owner>[^/]+)/(?P<name>[^/]+)$ .         *)
(* A match is <<start, k>>: owner is s[start+1..k-1], s[k] = "/", name is  *)
(* s[k+1..Len(s)].                                                         *)
(***************************************************************************)
\* Mutant of the GitHub pattern: the dot of github.com left unescaped.
GithubOriginAtomsUnescaped == Unwrap(RegexNew(<< "g", "i", "t", "h", "u", "b", ".", "c", "o", "m", "/" >>))
GithubOriginAtoms == Unwrap(RegexNew(<< "g", "i", "t", "h", "u", "b", "\\", ".", "c", "o", "m", "/" >>))

GithubMatches(s) ==
    LET starts == {0} \cup { off + Len(GithubOriginAtoms) :
                               off \in { o \in SchemeEnds(s) :
                                           MatchAt(GithubOriginAtoms, s, o) } }
    IN  UNION { { << start, k >> :
                    k \in { j \in (start + 2)..(Len(s) - 1) :
                              /\ s[j] = "/"
                              /\ IsSegment(s, start + 1, j - 1)
                              /\ IsSegment(s, j + 1, Len(s)) } } :
                start \in starts }

\* captures(): the optional group is taken when the rest matches with it.
GithubCaptures(s) ==
    LET ms == GithubMatches(s)
    IN  IF ms = {} THEN None
        ELSE LET start == Max({ m[1] : m \in ms })
                 m == CHOOSE x \in ms : x[1] = start
             IN  Some([owner |-> SubSeq(s, m[1] + 1, m[2] - 1),
                       name |-> SubSeq(s, m[2] + 1, Len(s))])

(***************************************************************************)
(* arguments.rs: the Gitea pattern, which is the GitLab pattern too: an     *)
(* optional http:// or https://, the origin ([^/]+\.)+[^/]+, the sub_path  *)
(* (a "/" and then any number of [^/]+/), the owner [^/]+, a "/", the name *)
(* [^/]+, the end of the string.                                           *)
(* A match is <<off, a, b, c>>: origin is s[off+1..a], sub_path            *)
(* s[a+1..b], owner s[b+1..c-1], s[c] = "/", name s[c+1..Len(s)].          *)
(***************************************************************************)
\* ([^/]+\.)+[^/]+ : no "/", and a dot with a character on either side.
OriginOk(s, off, a) ==
    /\ IsSegment(s, off + 1, a)
    /\ \E j \in (off + 2)..(a - 1) : s[j] = "."

\* Mutant of the sub_path group: cut down to "/".
SubPathOkNoSegments(s, a, b) == b = a + 1 /\ b <= Len(s) /\ s[b] = "/"
\* sub_path: starts and ends with "/", no empty segment in between.
SubPathOk(s, a, b) ==
    /\ a + 1 <= b /\ b <= Len(s)
    /\ s[a + 1] = "/" /\ s[b] = "/"
    /\ \A j \in (a + 1)..(b - 1) : ~(s[j] = "/" /\ s[j + 1] = "/")

GiteaMatches(s) ==
    UNION { UNION { UNION { { << off, a, b, c >> :
            c \in { j \in (b + 2)..(Len(s) - 1) :
                      /\ s[j] = "/"
                      /\ IsSegment(s, b + 1, j - 1)
                      /\ IsSegment(s, j + 1, Len(s)) } } :
            b \in { j \in (a + 1)..Len(s) : SubPathOk(s, a, j) } } :
            a \in { j \in (off + 1)..Len(s) : OriginOk(s, off, j) } } :
            off \in SchemeEnds(s) }

\* captures(): every group is greedy, the optional scheme is taken when the
\* rest matches with it.
GiteaCaptures(s) ==
    LET ms == GiteaMatches(s)
    IN  IF ms = {} THEN None
        ELSE LET off == Max({ m[1] : m \in ms })
                 a == Max({ m[2] : m \in { x \in ms : x[1] = off } })
                 b == Max({ m[3] : m \in { x \in ms : x[1] = off /\ x[2] = a } })
                 m == CHOOSE x \in ms : x[1] = off /\ x[2] = a /\ x[3] = b
             IN  Some([origin |-> SubSeq(s, off + 1, a),
                       sub_path |-> SubSeq(s, a + 1, b),
                       owner |-> SubSeq(s, b + 1, m[4] - 1),
                       name |-> SubSeq(s, m[4] + 1, Len(s))])

GitWebsite == {"GitHub", "Gitea", "GitLab"}

\* parse_repository: Some(Repository) for Ok, None for
\* Err(InvalidRepository(repository_string)).
ParseRepository(repository_string, website) ==
    IF website = "GitHub"
       THEN LET captures == GithubCaptures(repository_string)
            IN  IF captures = None THEN None
                ELSE Some([website |-> website,
                           owner |-> Unwrap(captures).owner,
                           name |-> Unwrap(captures).name,
                           origin |-> << "g", "i", "t", "h", "u", "b", ".", "c", "o", "m" >>,
                           sub_path |-> << "/" >>,
                           passed_string |-> repository_string])
       ELSE LET captures == GiteaCaptures(repository_string)
            IN  IF captures = None THEN None
                ELSE Some([website |-> website,
                           owner |-> Unwrap(captures).owner,
                           name |-> Unwrap(captures).name,
                           origin |-> Unwrap(captures).origin,
                           sub_path |-> Unwrap(captures).sub_path,
                           passed_string |-> repository_string])

\* TryFrom<RepositoryArguments> for Repository: the website type given, or
\* else guessed; << "ok", repository >> or << "err", error >>.
TryFromRepositoryArguments(repository_string, website_arg) ==
    LET website == IF website_arg # None THEN website_arg
                   ELSE GuessWebsiteType(repository_string)
    IN  IF website = None THEN << "err", "GuessWebsiteFail" >>
        ELSE LET parsed == ParseRepository(repository_string, Unwrap(website))
             IN  IF parsed = None THEN << "err", "InvalidRepository" >>
                 ELSE << "ok", Unwrap(parsed) >>

(***************************************************************************)
(* main.rs: the URLs the program builds.                                   *)
(***************************************************************************)
GetSchemeFromRepositoryString(url) ==
    IF StartsWith(url, HttpPrefix) THEN << "h", "t", "t", "p" >> ELSE << "h", "t", "t", "p", "s" >>

GetReleasesApiUrl(repository) ==
    LET scheme == GetSchemeFromRepositoryString(repository.passed_string)
    IN  CASE repository.website = "GitHub" ->
               scheme \o << ":", "/", "/", "a", "p", "i", ".", "g", "i", "t", "h", "u", "b", ".", "c", "o", "m", "/", "r", "e", "p", "o", "s", "/" >> \o repository.owner
                   \o << "/" >> \o repository.name \o << "/", "r", "e", "l", "e", "a", "s", "e", "s" >>
          [] repository.website = "Gitea" ->
               scheme \o << ":", "/", "/" >> \o repository.origin \o repository.sub_path
                   \o << "a", "p", "i", "/", "v", "1", "/", "r", "e", "p", "o", "s", "/" >> \o repository.owner
                   \o << "/" >> \o repository.name \o << "/", "r", "e", "l", "e", "a", "s", "e", "s" >>
          [] repository.website = "GitLab" ->
               scheme \o << ":", "/", "/" >> \o repository.origin \o repository.sub_path
                   \o << "a", "p", "i", "/", "v", "4", "/", "p", "r", "o", "j", "e", "c", "t", "s", "/" >> \o repository.owner
                   \o << "%", "2", "F" >> \o repository.name \o << "/", "r", "e", "l", "e", "a", "s", "e", "s" >>

\* An i64 asset id as format! writes it (the ids of the model have one digit).
FormatId(id) ==
    << << "0", "1", "2", "3", "4", "5", "6", "7", "8", "9" >>[id + 1] >>

GetGithubAssetApiUrl(owner, repository_name, asset_id) ==
    << "h", "t", "t", "p", "s", ":", "/", "/", "a", "p", "i", ".", "g", "i", "t", "h", "u", "b", ".", "c", "o", "m", "/", "r", "e", "p", "o", "s", "/" >> \o owner \o << "/" >> \o repository_name
        \o << "/", "r", "e", "l", "e", "a", "s", "e", "s", "/", "a", "s", "s", "e", "t", "s", "/" >> \o FormatId(asset_id)

(***************************************************************************)
(* main.rs: make_get_request.  Every header string is split at its first   *)
(* colon; a string without one ends the run before the request is sent.    *)
(***************************************************************************)
USERAGENT == << "g", "i", "t", "w", "e", "b", "-", "r", "e", "l", "e", "a", "s", "e", "-", "d", "o", "w", "n", "l", "o", "a", "d", "e", "r" >>

ColonsOf(header) == { k \in 1..Len(header) : header[k] = ":" }

\* Mutant of the split: at the last colon.
SplitOnceColonLast(header) ==
    IF ColonsOf(header) = {} THEN None
    ELSE LET k == Max(ColonsOf(header))
         IN  Some(<< SubSeq(header, 1, k - 1), SubSeq(header, k + 1, Len(header)) >>)
\* header.split_once(":"): Some(<<header_name, value>>) or None.
SplitOnceColon(header) ==
    IF ColonsOf(header) = {} THEN None
    ELSE LET k == CHOOSE i \in ColonsOf(header) : \A j \in ColonsOf(header) : i <= j
         IN  Some(<< SubSeq(header, 1, k - 1), SubSeq(header, k + 1, Len(header)) >>)

\* Mutant of make_get_request: a header without a colon is skipped.
BuildRequestSkipsMalformed(url, headers) ==
    LET good == SelectSeq(headers, LAMBDA h : ColonsOf(h) # {})
    IN  Some([url |-> url,
              user_agent |-> USERAGENT,
              headers |-> [k \in 1..Len(good) |-> Unwrap(SplitOnceColon(good[k]))]])
\* The request make_get_request is about to call: None when a header has no
\* colon (the process exits), else the URL, the user agent and the headers
\* set, in order.
BuildRequest(url, headers) ==
    IF \E k \in 1..Len(headers) : SplitOnceColon(headers[k]) = None THEN None
    ELSE Some([url |-> url,
               user_agent |-> USERAGENT,
               headers |-> [k \in 1..Len(headers) |->
                                Unwrap(SplitOnceColon(headers[k]))]])

AcceptOctetStream == << "A", "c", "c", "e", "p", "t", ":", " ", "a", "p", "p", "l", "i", "c", "a", "t", "i", "o", "n", "/", "o", "c", "t", "e", "t", "-", "s", "t", "r", "e", "a", "m" >>

\* Mutant of the asset request's headers: Accept is pushed for every website.
AssetRequestHeadersAlwaysAccept(website, headers) ==
    Append(headers, AcceptOctetStream)
\* download_assets: repository.headers as the asset request is made.
AssetRequestHeaders(website, headers) ==
    IF website = "GitHub" THEN Append(headers, AcceptOctetStream) ELSE headers

(***************************************************************************)
(* The state of one run.                                                   *)
(***************************************************************************)
VARIABLES
    mode,              \* arguments::CommandMode: "download" or "assets" (query assets)
    tag,               \* DownloadArgs::tag / AssetsQueryArgs::tag: Option<String>
    allow_prerelease,  \* DownloadArgs::allow_prerelease
    pattern,           \* DownloadArgs::asset_pattern / AssetsQueryArgs::pattern
    repository_string, \* RepositoryArguments::repository, as typed
    website_type,      \* RepositoryArguments::website_type: Option<GitWebsite>
    header_args,       \* the header strings given on the command line, in order
    repository,        \* the Repository of the parsed arguments, None before
    requests,          \* log: every request make_get_request has called
    pc,                \* the statement the run is at
    exit_code,         \* None while running, Some(status) once exited
    diag,              \* the diagnostic the run ended with on stderr
    stdout,            \* the lines printed to standard output
    releases,          \* the decoded listing (get_releases' result)
    release,           \* the release find_release returned: Option<index>
    asset,             \* the asset get_asset_or_exit returned: Option<Asset>
    response,          \* the asset response: None or Some([len, content_length])
    file_exists,       \* the output file is in the working directory
    file_len,          \* bytes the output file holds
    pb,                \* pb_option: None or Some([position, length])
    stream_pos,        \* bytes the response stream has delivered
    chunk_result,      \* the pending result of stream.read: None, <<"err">>, <<"ok", n>>
    bytes_downloaded,  \* the running byte counter
    reads,             \* log: the result of every stream.read call
    writes,            \* log: every out_file.write call: <<offered, "err">>, <<offered, "ok", accepted>>
    short_ios          \* short reads and writes so far (bounded by MaxShortIO)

argVars == << mode, tag, allow_prerelease, pattern, repository_string,
             website_type, header_args >>
netVars == << repository, requests >>
selVars == << releases, release, asset >>
fileVars == << file_exists, file_len >>
streamVars == << pb, stream_pos, chunk_result, bytes_downloaded, reads, writes,
                 short_ios >>
vars == << mode, tag, allow_prerelease, pattern, repository_string,
           website_type, header_args, repository, requests, pc, exit_code, diag,
           stdout,
           releases, release, asset, response, file_exists, file_len, pb,
           stream_pos, chunk_result, bytes_downloaded, reads, writes, short_ios >>

\* let mut buffer = [0_u8; 8192]
BufferSize == 8192

TagArgs == {None} \cup { Some(t) : t \in Tags }

\* The body lengths of the model: whole buffers, and whole buffers plus a byte.
BodyLens == { k * BufferSize + d : k \in 0..MaxFullChunks, d \in {0, 1} }

Min(a, b) == IF a <= b THEN a ELSE b

(***************************************************************************)
(* The command lines of the model.  A repository string is an optional     *)
(* scheme, an optional host, up to MaxSegments path segments, an owner and *)
(* a name (either may be empty), joined by "/".                            *)
(***************************************************************************)
Owner == << "o" >>
Name == << "n" >>
Segment == << "s" >>
HostDotted == << "a", ".", "b" >>
HostDottedPort == << "a", ".", "b", ":", "1" >>
HostDotless == << "h" >>
HostGithub == << "g", "i", "t", "h", "u", "b", ".", "c", "o", "m" >>
HostGitlab == << "g", "i", "t", "l", "a", "b", ".", "c", "o", "m" >>
HostGithubLike == << "g", "i", "t", "h", "u", "b", "x", "c", "o", "m" >>
Hosts == {HostDotted, HostDottedPort, HostDotless, HostGithub, HostGitlab,
          HostGithubLike}
Prefixes == {<< >>, HttpPrefix, HttpsPrefix}

RECURSIVE Segments(_)
Segments(n) == IF n = 0 THEN << >> ELSE Segment \o << "/" >> \o Segments(n - 1)

\* prefix, host (an Option), n segments, owner, name as one string.
Compose(prefix, host, n, owner, name) ==
    prefix \o (IF host = None THEN << >> ELSE Unwrap(host) \o << "/" >>)
           \o Segments(n) \o owner \o << "/" >> \o name

RepositoryStrings ==
    { Compose(prefix, host, n, owner, name) :
        prefix \in Prefixes, host \in {None} \cup { Some(h) : h \in Hosts },
        n \in 0..MaxSegments, owner \in {<< >>, Owner}, name \in {<< >>, Name} }

WebsiteTypeArgs == {None} \cup { Some(w) : w \in GitWebsite }

\* One header with two colons, one without any.
HeaderTwoColons == << "A", ":", "b", ":", "c" >>
HeaderNoColon == << "X", "-", "T", "e", "s", "t" >>
HeaderLists ==
    UNION { [1..n -> {HeaderTwoColons, HeaderNoColon}] : n \in 0..MaxHeaders }

\* The state main starts in, for the command lines given.
InitWith(modes, tags, flags, patterns, repositories, header_lists) ==
    /\ mode \in modes
    /\ tag \in tags
    /\ allow_prerelease \in (IF mode = "download" THEN flags ELSE {FALSE})
    /\ pattern \in patterns
    /\ \E given \in repositories :
         /\ repository_string = given[1]
         /\ website_type = given[2]
    /\ header_args \in header_lists
    /\ repository = None
    /\ requests = << >>
    /\ pc = "main"
    /\ exit_code = None
    /\ diag = "none"
    /\ stdout = << >>
    /\ releases = << >>
    /\ release = None
    /\ asset = None
    /\ response = None
    /\ file_exists = FALSE
    /\ file_len = 0
    /\ pb = None
    /\ stream_pos = 0
    /\ chunk_result = None
    /\ bytes_downloaded = 0
    /\ reads = << >>
    /\ writes = << >>
    /\ short_ios = 0

\* Every selection and every transfer, on one GitHub repository, without
\* headers or with one that has no colon.
Init ==
    InitWith({"download", "assets"}, TagArgs, BOOLEAN, Patterns,
             {<< Compose(<< >>, Some(HostGithub), 0, Owner, Name), None >>},
             {<< >>, << HeaderNoColon >>})

\* Every transfer, with one tag, flag and pattern.
LiveInit ==
    InitWith({"download", "assets"}, {None}, {FALSE}, {PatternZip},
             {<< Compose(<< >>, Some(HostGithub), 0, Owner, Name), None >>},
             {<< >>, << HeaderNoColon >>})

\* Every website, scheme and header list, with one selection.
RequestInit ==
    InitWith({"download", "assets"}, {None}, {FALSE}, {PatternZip},
             {<< Compose(HttpPrefix, Some(HostGithub), 0, Owner, Name), None >>,
              << Compose(<< >>, None, 0, Owner, Name), Some("GitHub") >>,
              << Compose(HttpsPrefix, Some(HostDotted), 1, Owner, Name), Some("Gitea") >>,
              << Compose(HttpPrefix, Some(HostGitlab), 0, Owner, Name), None >>},
             HeaderLists)

\* Every repository string with every website type; the run is followed up
\* to the end of the argument parsing.
ParseInit ==
    InitWith({"download"}, {None}, {FALSE}, {PatternZip},
             RepositoryStrings \X WebsiteTypeArgs, {<< >>})

\* process::exit(code) after a diagnostic on stderr (or exit(0) from main).
Exit(code, d) ==
    /\ pc' = "exit"
    /\ exit_code' = Some(code)
    /\ diag' = d

(***************************************************************************)
(* main: Arguments::parse() either rejects the command line (clap prints   *)
(* the error and exits with status 2) or hands the parsed arguments to the *)
(* command's function.                                                     *)
(***************************************************************************)
\* The Repository main.rs works with: the parsed one and its headers.
WithHeaders(parsed, headers) ==
    [website |-> parsed.website, owner |-> parsed.owner, name |-> parsed.name,
     origin |-> parsed.origin, sub_path |-> parsed.sub_path,
     passed_string |-> parsed.passed_string, headers |-> headers]

ArgumentsParse ==
    /\ pc = "main"
    /\ \/ /\ Exit(2, "arguments")
          /\ UNCHANGED repository
       \/ LET result == TryFromRepositoryArguments(repository_string, website_type)
          IN  IF result[1] = "err"
                 THEN /\ Exit(2, result[2])
                      /\ UNCHANGED repository
                 ELSE /\ repository' = Some(WithHeaders(result[2], header_args))
                      /\ pc' = IF mode = "download" THEN "compile_pattern"
                                                   ELSE "get_releases"
                      /\ UNCHANGED << exit_code, diag >>
    /\ UNCHANGED << argVars, requests, stdout, selVars, response, fileVars,
                    streamVars >>

(***************************************************************************)
(* download_assets, first statement: get_compiled_asset_pattern_or_exit.   *)
(***************************************************************************)
CompileAssetPattern ==
    /\ pc = "compile_pattern"
    /\ IF RegexNew(pattern) = None
          THEN Exit(1, "regex")
          ELSE pc' = "get_releases" /\ UNCHANGED << exit_code, diag >>
    /\ UNCHANGED << argVars, netVars, stdout, selVars, response, fileVars, streamVars >>

(***************************************************************************)
(* get_releases: the listing request, its body as a string, its decoding.  *)
(* Each of the three can fail and exits with status 1; otherwise the       *)
(* decoded listing is returned.                                            *)
(***************************************************************************)
GetReleases ==
    /\ pc = "get_releases"
    /\ LET request == BuildRequest(GetReleasesApiUrl(Unwrap(repository)),
                                   Unwrap(repository).headers)
       IN  IF request = None
              THEN /\ Exit(1, "header")
                   /\ UNCHANGED << releases, requests >>
              ELSE /\ requests' = Append(requests, Unwrap(request))
                   /\ \/ Exit(1, "http") /\ UNCHANGED releases
                      \/ Exit(1, "json_string") /\ UNCHANGED releases
                      \/ Exit(1, "deserialize") /\ UNCHANGED releases
                      \/ \E rels \in ReleaseLists :
                           /\ releases' = rels
                           /\ pc' = IF mode = "download" THEN "get_asset"
                                                        ELSE "print_assets"
                           /\ UNCHANGED << exit_code, diag >>
    /\ UNCHANGED << argVars, repository, stdout, release, asset, response,
                    fileVars, streamVars >>

\* Mutant of get_asset_or_exit: a given tag lifts the prerelease filter, as
\* it does in print_assets.
DownloadAllowPrereleaseTagLifts(t, allow_pre) == allow_pre \/ t # None
\* get_asset_or_exit: find_asset is given parsed_args.allow_prerelease as is.
DownloadAllowPrerelease(t, allow_pre) == allow_pre

(***************************************************************************)
(* get_asset_or_exit: find_asset with the download arguments; without an   *)
(* asset the run ends with the not-found diagnostic and status 1.          *)
(* `release` is find_asset's local of that name.                           *)
(***************************************************************************)
GetAssetOrExit ==
    /\ pc = "get_asset"
    /\ LET regex == Unwrap(RegexNew(pattern))
           allow_pre == DownloadAllowPrerelease(tag, allow_prerelease)
           found == FindAsset(releases, tag, allow_pre, regex)
       IN  /\ release' = FindRelease(releases, tag, allow_pre)
           /\ IF found = None
                 THEN /\ asset' = None
                      /\ Exit(1, "not_found")
                 ELSE /\ asset' = Some(releases[found[1][1]].assets[found[1][2]])
                      /\ pc' = "asset_request"
                      /\ UNCHANGED << exit_code, diag >>
    /\ UNCHANGED << argVars, netVars, stdout, releases, response, fileVars, streamVars >>

\* Mutant of print_assets: prereleases are never allowed.
AssetsQueryAllowPrereleaseNever(t) == FALSE
\* print_assets: let allow_prerelease = assets_query_args.tag.is_some()
AssetsQueryAllowPrerelease(t) == t # None

(***************************************************************************)
(* print_assets after get_releases: select the release, compile the        *)
(* pattern, print the names of the matching assets; main then exits 0.     *)
(***************************************************************************)
PrintAssets ==
    /\ pc = "print_assets"
    /\ LET found == FindRelease(releases, tag, AssetsQueryAllowPrerelease(tag))
       IN  /\ release' = found
           /\ IF found = None
                 THEN /\ Exit(1, IF tag = None THEN "no_latest" ELSE "no_release")
                      /\ UNCHANGED stdout
              ELSE IF RegexNew(pattern) = None
                 THEN /\ Exit(1, "regex")
                      /\ UNCHANGED stdout
              ELSE /\ stdout' =
                        LET matching == FindAssetsInRelease(
                                releases[Unwrap(found)], Unwrap(RegexNew(pattern)))
                        IN  [k \in 1..Len(matching) |-> matching[k].name]
                   /\ Exit(0, "none")
    /\ UNCHANGED << argVars, netVars, releases, asset, response, fileVars, streamVars >>

(***************************************************************************)
(* download_assets, the asset request: make_get_request on the asset's     *)
(* URL.  A failed request exits with status 1.  A response delivers `len`  *)
(* bytes and carries a content-length header (the body's length) or none.  *)
(* The listing is not read again after this point (only the borrowed       *)
(* asset is): the model stops tracking it here.                            *)
(***************************************************************************)
AssetRequest ==
    /\ pc = "asset_request"
    /\ LET repo == Unwrap(repository)
           headers == AssetRequestHeaders(repo.website, repo.headers)
           url == IF repo.website = "GitHub"
                     THEN GetGithubAssetApiUrl(repo.owner, repo.name,
                                               Unwrap(asset).id)
                     ELSE Unwrap(asset).browser_download_url
           request == BuildRequest(url, headers)
       IN  /\ repository' = Some([repo EXCEPT !.headers = headers])
           /\ IF request = None
                 THEN /\ Exit(1, "header")
                      /\ UNCHANGED << releases, release, response, requests >>
                 ELSE /\ requests' = Append(requests, Unwrap(request))
                      /\ \/ /\ Exit(1, "download")
                            /\ UNCHANGED << releases, release, response >>
                         \/ \E len \in BodyLens :
                            \E content_length \in {None, Some(len)} :
                              /\ response' = Some([len |-> len,
                                                   content_length |-> content_length])
                              /\ releases' = << >>
                              /\ release' = None
                              /\ pc' = "create_file"
                              /\ UNCHANGED << exit_code, diag >>
    /\ UNCHANGED << argVars, stdout, asset, fileVars, streamVars >>

(***************************************************************************)
(* download_assets: File::create(out_filename) creates (or truncates) the  *)
(* output file, or fails and exits with status 1; then                     *)
(* create_and_init_progress_bar(get_content_length(&response)): a bar at   *)
(* position 0 when the response carried a content-length, else none.       *)
(***************************************************************************)
CreateFile ==
    /\ pc = "create_file"
    /\ \/ /\ Exit(1, "create")
          /\ UNCHANGED << fileVars, pb >>
       \/ /\ file_exists' = TRUE
          /\ file_len' = 0
          /\ pb' = IF Unwrap(response).content_length = None THEN None
                   ELSE Some([position |-> 0,
                              length |-> Unwrap(Unwrap(response).content_length)])
          /\ pc' = "stream_read"
          /\ UNCHANGED << exit_code, diag >>
    /\ UNCHANGED << argVars, netVars, stdout, selVars, response, stream_pos, chunk_result,
                    bytes_downloaded, reads, writes, short_ios >>

(***************************************************************************)
(* stream_response_into_file, one loop iteration in four steps.            *)
(***************************************************************************)
\* Mutant of the read: the buffer takes whatever is left of the body.
ReadSizesNoBuffer(remaining) == {remaining}
\* What one stream.read(&mut buffer) may deliver of `remaining` bytes: as
\* much as the buffer takes, or (a short read) half of that.
ReadSizes(remaining) ==
    LET full == Min(remaining, BufferSize)
    IN  {full} \cup (IF short_ios < MaxShortIO /\ full >= 2
                        THEN {full \div 2} ELSE {})

\* let chunk_result = stream.read(&mut buffer): an error, Ok(0) at the end
\* of the body, or Ok(n) with the next n bytes.
StreamRead ==
    /\ pc = "stream_read"
    /\ pc' = "stream_match"
    /\ \/ /\ chunk_result' = << "err" >>
          /\ UNCHANGED << stream_pos, short_ios >>
       \/ /\ stream_pos = Unwrap(response).len
          /\ chunk_result' = << "ok", 0 >>
          /\ UNCHANGED << stream_pos, short_ios >>
       \/ /\ stream_pos < Unwrap(response).len
          /\ \E n \in ReadSizes(Unwrap(response).len - stream_pos) :
                /\ chunk_result' = << "ok", n >>
                /\ stream_pos' = stream_pos + n
                /\ short_ios' =
                     IF n < Min(Unwrap(response).len - stream_pos, BufferSize)
                        THEN short_ios + 1 ELSE short_ios
    /\ reads' = Append(reads, chunk_result')
    /\ UNCHANGED << argVars, netVars, exit_code, diag, stdout, selVars, response,
                    fileVars, pb, bytes_downloaded, writes >>

\* Mutant of the error arm: the failed read is tried again.
StreamReadErrorRetries ==
    /\ pc = "stream_match"
    /\ chunk_result = << "err" >>
    /\ chunk_result' = None
    /\ pc' = "stream_read"
    /\ UNCHANGED << argVars, netVars, exit_code, diag, stdout, selVars, response,
                    fileVars, pb, stream_pos, bytes_downloaded, reads, writes,
                    short_ios >>
\* Err(error) => { writeln!(stderr, "Error reading stream"); process::exit(1) }
StreamReadError ==
    /\ pc = "stream_match"
    /\ chunk_result = << "err" >>
    /\ Exit(1, "read_error")
    /\ UNCHANGED << argVars, netVars, stdout, selVars, response, fileVars, streamVars >>

\* Mutant of the end-of-stream arm: the loop goes on reading.
StreamEndContinues ==
    /\ pc = "stream_match"
    /\ chunk_result = << "ok", 0 >>
    /\ chunk_result' = None
    /\ pc' = IF Len(reads) < MaxFullChunks + MaxShortIO + 3
                THEN "stream_read" ELSE "stream_done"
    /\ UNCHANGED << argVars, netVars, exit_code, diag, stdout, selVars, response,
                    fileVars, pb, stream_pos, bytes_downloaded, reads, writes,
                    short_ios >>
\* Ok(read_size) if read_size == 0 => break: the function returns.
StreamEnd ==
    /\ pc = "stream_match"
    /\ chunk_result = << "ok", 0 >>
    /\ chunk_result' = None
    /\ pc' = "stream_done"
    /\ UNCHANGED << argVars, netVars, exit_code, diag, stdout, selVars, response,
                    fileVars, pb, stream_pos, bytes_downloaded, reads, writes,
                    short_ios >>

\* What out_file.write(&buffer[0..n]) may accept: all n bytes, or (a short
\* write) half of them.  The code does not look at the number.
WriteSizes(n) ==
    {n} \cup (IF short_ios < MaxShortIO /\ n >= 2 THEN {n \div 2} ELSE {})

\* out_file.write(&buffer[0..read_size]): an error exits with status 1.
StreamWrite ==
    /\ pc = "stream_match"
    /\ Len(chunk_result) = 2
    /\ chunk_result[2] > 0
    /\ \/ /\ writes' = Append(writes, << chunk_result[2], "err" >>)
          /\ Exit(1, "write_error")
          /\ UNCHANGED << file_len, short_ios >>
       \/ \E m \in WriteSizes(chunk_result[2]) :
            /\ writes' = Append(writes, << chunk_result[2], "ok", m >>)
            /\ file_len' = file_len + m
            /\ short_ios' = IF m < chunk_result[2] THEN short_ios + 1 ELSE short_ios
            /\ pc' = "stream_count"
            /\ UNCHANGED << exit_code, diag >>
    /\ UNCHANGED << argVars, netVars, stdout, selVars, response, file_exists, pb,
                    stream_pos, chunk_result, bytes_downloaded, reads >>

\* Mutant of the counter: the chunk's size is stored, not added.
StreamCountOverwrites ==
    /\ pc = "stream_count"
    /\ bytes_downloaded' = chunk_result[2]
    /\ pb' = IF pb = None THEN None
             ELSE Some([Unwrap(pb) EXCEPT !.position = chunk_result[2]])
    /\ chunk_result' = None
    /\ pc' = "stream_read"
    /\ UNCHANGED << argVars, netVars, exit_code, diag, stdout, selVars, response,
                    fileVars, stream_pos, reads, writes, short_ios >>
\* bytes_downloaded += read_size; pb.set_position(bytes_downloaded)
StreamCount ==
    /\ pc = "stream_count"
    /\ bytes_downloaded' = bytes_downloaded + chunk_result[2]
    /\ pb' = IF pb = None THEN None
             ELSE Some([Unwrap(pb) EXCEPT !.position =
                            bytes_downloaded + chunk_result[2]])
    /\ chunk_result' = None
    /\ pc' = "stream_read"
    /\ UNCHANGED << argVars, netVars, exit_code, diag, stdout, selVars, response,
                    fileVars, stream_pos, reads, writes, short_ios >>

(***************************************************************************)
(* download_assets after the transfer: pb.finish() and the success         *)
(* message; main then exits with status 0.                                 *)
(***************************************************************************)
FinishDownload ==
    /\ pc = "stream_done"
    /\ pb' = IF pb = None THEN None
             ELSE Some([Unwrap(pb) EXCEPT !.position = Unwrap(pb).length])
    /\ Exit(0, "none")
    /\ UNCHANGED << argVars, netVars, stdout, selVars, response, fileVars, stream_pos,
                    chunk_result, bytes_downloaded, reads, writes, short_ios >>

Next ==
    \/ ArgumentsParse
    \/ CompileAssetPattern
    \/ GetReleases
    \/ GetAssetOrExit
    \/ PrintAssets
    \/ AssetRequest
    \/ CreateFile
    \/ StreamRead
    \/ StreamReadError
    \/ StreamEnd
    \/ StreamWrite
    \/ StreamCount
    \/ FinishDownload

Spec == Init /\ [][Next]_vars

\* The run is one sequential thread: a step that can be taken is taken.
\* Every transfer, with one selection.
LiveSpec == LiveInit /\ [][Next]_vars /\ WF_vars(Next)

\* The runs over every website, scheme and header list.
RequestSpec == RequestInit /\ [][Next]_vars

\* The argument parsing alone, over every repository string.
ParseSpec == ParseInit /\ [][ArgumentsParse]_vars

(***************************************************************************)
(* Vocabulary of the properties.                                           *)
(***************************************************************************)
\* The least element of a non-empty set of indices.
Least(S) == CHOOSE i \in S : \A j \in S : i <= j
\* Some(least index) or None: "the first ... in list order".
FirstOf(S) == IF S = {} THEN None ELSE Some(Least(S))

\* get_asset_or_exit has returned or exited: `release` and `asset` hold
\* what the download path selected from `releases`.
DownloadSelected ==
    /\ mode = "download"
    /\ \/ pc = "asset_request"
       \/ pc = "exit" /\ diag = "not_found"

\* print_assets has selected its release (and ended the run).
AssetsSelected ==
    /\ mode = "assets"
    /\ pc = "exit"
    /\ diag \in {"no_latest", "no_release", "regex", "none"}

\* The indices of the releases tagged t.
Tagged(t) == { i \in 1..Len(releases) : releases[i].tag_name = t }
\* The indices of the releases that are no prereleases.
Stable == { i \in 1..Len(releases) : ~releases[i].prerelease }

\* The asset pattern, compiled.
Compiled == Unwrap(RegexNew(pattern))

(***************************************************************************)
(* C1: without a tag and with allow_prerelease = false, find_release       *)
(* returns the first release of the listing that is no prerelease, and     *)
(* None when every release is a prerelease or the listing is empty.        *)
(***************************************************************************)
C1_LatestIsFirstStable ==
    (DownloadSelected /\ tag = None /\ ~allow_prerelease)
        => release = FirstOf(Stable)

\* A prerelease heads the listing and the stable release after it is returned.
C1_Witness ==
    /\ DownloadSelected /\ tag = None /\ ~allow_prerelease
    /\ Len(releases) = 2
    /\ releases[1].prerelease
    /\ release = Some(2)

(***************************************************************************)
(* C2: with tag t, find_release returns the first release whose tag_name   *)
(* is exactly t and that passes the prerelease filter (no prerelease, or   *)
(* allow_prerelease), and None when there is none: never a release with    *)
(* another tag, never a filtered-out prerelease.                           *)
(***************************************************************************)
C2_TaggedIsFirstPassing ==
    (DownloadSelected /\ tag # None)
        => release = FirstOf({ i \in Tagged(Unwrap(tag)) :
                                 ~releases[i].prerelease \/ allow_prerelease })

\* The release tagged t exists, is a prerelease, and None is returned.
C2_Witness ==
    /\ DownloadSelected /\ tag = Some("v1") /\ ~allow_prerelease
    /\ Tagged("v1") # {}
    /\ Tagged("V1") # {}
    /\ Tagged("v1") \cap Stable = {}
    /\ release = None

(***************************************************************************)
(* C3: find_asset returns the first asset, in the selected release's asset *)
(* order, whose name matches the pattern: it matches, and no asset before  *)
(* it in that release does.                                                *)
(***************************************************************************)
C3_FirstMatchingAsset ==
    (DownloadSelected /\ asset # None)
        => /\ release # None
           /\ LET assets == releases[Unwrap(release)].assets
              IN  \E k \in 1..Len(assets) :
                    /\ assets[k] = Unwrap(asset)
                    /\ IsMatch(Compiled, assets[k].name)
                    /\ \A j \in 1..(k - 1) : ~IsMatch(Compiled, assets[j].name)

\* Two assets of the selected release match; the first of them is returned.
C3_Witness ==
    /\ DownloadSelected /\ asset # None
    /\ LET assets == releases[Unwrap(release)].assets
       IN  /\ Len(assets) = 2
           /\ \A k \in 1..2 : IsMatch(Compiled, assets[k].name)
           /\ Unwrap(asset) = assets[1]
           /\ assets[1] = AssetTar

(***************************************************************************)
(* C4: the assets query selects its release without prereleases when no    *)
(* tag is given, and with them when a tag is given: without a tag a        *)
(* prerelease is never selected (the first stable release is), with tag t  *)
(* the first release tagged t is, prerelease or not; the names printed are *)
(* those of the selected release's matching assets.                        *)
(***************************************************************************)
C4_AssetsQueryPolicy ==
    AssetsSelected
        => /\ tag = None => release = FirstOf(Stable)
           /\ tag # None => release = FirstOf(Tagged(Unwrap(tag)))
           /\ (release = None) = (exit_code = Some(1) /\ diag \in {"no_latest", "no_release"})
           /\ diag = "none" =>
                LET assets == releases[Unwrap(release)].assets
                    hits == { k \in 1..Len(assets) : IsMatch(Compiled, assets[k].name) }
                IN  /\ Len(stdout) = Cardinality(hits)
                    /\ \A n \in 1..Len(stdout) : \E k \in hits : stdout[n] = assets[k].name

\* A tag is given and the release whose assets are printed is a prerelease.
C4_Witness ==
    /\ AssetsSelected /\ tag # None /\ diag = "none"
    /\ release = Some(1)
    /\ releases[1].prerelease
    /\ Len(stdout) = 2

(***************************************************************************)
(* C5: in the download path the prerelease filter depends on the           *)
(* allow_prerelease flag alone.  With the flag off, tag or no tag, the     *)
(* selected release and the asset taken from it are never a prerelease's,  *)
(* and a tag that names only prereleases ends the run with the not-found   *)
(* diagnostic and exit status 1; with the flag on, tag or no tag, the      *)
(* first release (of that tag) is selected, prerelease or not.             *)
(***************************************************************************)
C5_DownloadFilterIsTheFlag ==
    DownloadSelected
        => LET wanted == IF tag = None THEN 1..Len(releases) ELSE Tagged(Unwrap(tag))
           IN  /\ ~allow_prerelease =>
                    /\ release # None => ~releases[Unwrap(release)].prerelease
                    /\ asset # None =>
                         \E i \in Stable : \E k \in DOMAIN releases[i].assets :
                            /\ release = Some(i)
                            /\ releases[i].assets[k] = Unwrap(asset)
                    /\ wanted \cap Stable = {} =>
                         /\ asset = None
                         /\ pc = "exit" /\ exit_code = Some(1) /\ diag = "not_found"
               /\ allow_prerelease => release = FirstOf(wanted)

\* The flag is off, the tag names a prerelease (which has a matching
\* asset), and the run has ended with the not-found diagnostic.
C5_Witness ==
    /\ DownloadSelected /\ ~allow_prerelease /\ tag # None
    /\ Len(releases) = 1
    /\ releases[1].tag_name = Unwrap(tag)
    /\ releases[1].prerelease
    /\ \E k \in DOMAIN releases[1].assets : IsMatch(Compiled, releases[1].assets[k].name)
    /\ pc = "exit" /\ exit_code = Some(1) /\ diag = "not_found"

(***************************************************************************)
(* Vocabulary of the transfer's properties, read off the two I/O logs.     *)
(***************************************************************************)
RECURSIVE SumSeq(_)
SumSeq(q) == IF q = << >> THEN 0 ELSE q[1] + SumSeq(Tail(q))

IsChunk(r) == Len(r) = 2 /\ r[2] > 0
\* The sizes of the non-empty chunks read so far, in order.
ChunkSizes ==
    LET got == SelectSeq(reads, IsChunk)
    IN  [k \in 1..Len(got) |-> got[k][2]]
\* The sizes of the slices handed to out_file.write so far, in order.
Offered == [k \in 1..Len(writes) |-> writes[k][1]]
\* The bytes the sink accepted.
Accepted ==
    SumSeq([k \in 1..Len(writes) |->
                IF writes[k][2] = "err" THEN 0 ELSE writes[k][3]])

ReadErrors == { i \in 1..Len(reads) : reads[i] = << "err" >> }
ZeroReads == { i \in 1..Len(reads) : reads[i] = << "ok", 0 >> }
WriteErrors == { i \in 1..Len(writes) : writes[i][2] = "err" }

BodyLen == Unwrap(response).len

C7_Original ==
    pc = "stream_done" =>
        /\ BodyLen = BufferSize + 1 =>
              /\ ChunkSizes = << BufferSize, 1 >>
              /\ pb # None => Unwrap(pb).position = BufferSize + 1
        /\ BodyLen = 0 =>
              /\ writes = << >>
              /\ file_exists /\ file_len = 0

(***************************************************************************)
(* C7 amended: a body of exactly 8193 bytes yields chunk reads of 1 to     *)
(* 8192 bytes each that add up to 8193, so at least two of them, and they  *)
(* are 8192 and 1 when the first read fills the buffer; the final byte     *)
(* count, and the progress position when there is a progress bar, is       *)
(* 8193.  A body of 0 bytes yields no write call and leaves the output     *)
(* file in place with length 0.                                            *)
(***************************************************************************)
C7_Amended ==
    pc = "stream_done" =>
        /\ BodyLen = BufferSize + 1 =>
              /\ \A k \in 1..Len(ChunkSizes) : ChunkSizes[k] \in 1..BufferSize
              /\ SumSeq(ChunkSizes) = BufferSize + 1
              /\ Len(ChunkSizes) >= 2
              /\ ChunkSizes[1] = BufferSize => ChunkSizes = << BufferSize, 1 >>
              /\ bytes_downloaded = BufferSize + 1
              /\ pb # None => Unwrap(pb).position = BufferSize + 1
        /\ BodyLen = 0 =>
              /\ ChunkSizes = << >>
              /\ writes = << >>
              /\ file_exists /\ file_len = 0

\* An 8193-byte body is through, in the chunks 8192 and 1, with a progress
\* bar at 8193.
C7_Witness ==
    /\ pc = "stream_done"
    /\ BodyLen = BufferSize + 1
    /\ ChunkSizes = << BufferSize, 1 >>
    /\ pb # None
    /\ Unwrap(pb).position = BufferSize + 1

(***************************************************************************)
(* C8: a failing read or write is the last I/O call of the transfer.  Once *)
(* one has failed, the only step left is the exit with status 1: no read,  *)
(* no write, no change of the counter or the progress position follows,    *)
(* nothing is retried, and the output file stays in place with the bytes   *)
(* it has.                                                                 *)
(***************************************************************************)
C8_ErrorAborts ==
    /\ [](/\ \A i \in ReadErrors : i = Len(reads)
          /\ \A i \in WriteErrors : i = Len(writes)
          /\ ReadErrors # {} =>
                /\ pc \in {"stream_match", "exit"}
                /\ pc = "exit" => exit_code = Some(1) /\ diag = "read_error"
                /\ Len(writes) = Len(ChunkSizes)
          /\ WriteErrors # {} =>
                /\ pc = "exit" /\ exit_code = Some(1) /\ diag = "write_error"
                /\ ReadErrors = {}
          /\ (ReadErrors # {} \/ WriteErrors # {}) =>
                /\ file_exists
                /\ file_len = Accepted
                /\ bytes_downloaded = SumSeq([k \in 1..(Len(writes) - Cardinality(WriteErrors))
                                                |-> writes[k][1]])
                /\ pb # None => Unwrap(pb).position = bytes_downloaded)
    /\ [][(ReadErrors # {} \/ WriteErrors # {}) =>
            /\ pc' = "exit" /\ exit_code' = Some(1)
            /\ UNCHANGED << reads, writes, bytes_downloaded, pb, file_exists,
                            file_len >>]_vars

\* The second chunk's write fails: the run has exited with status 1 and the
\* file holds the first chunk.
C8_Witness ==
    /\ pc = "exit" /\ exit_code = Some(1) /\ diag = "write_error"
    /\ Len(writes) = 2
    /\ file_exists /\ file_len = BufferSize
    /\ bytes_downloaded = BufferSize

(***************************************************************************)
(* C9: the transfer loop ends normally exactly when a read returns zero    *)
(* bytes, which is completion and no error: a zero-length read is the last *)
(* read ever issued and leads to the normal end (exit status 0), and the   *)
(* loop has ended normally only after one.  Every transfer terminates: it  *)
(* reaches the end of the loop or the fatal exit.                          *)
(***************************************************************************)
C9_ZeroReadEndsLoop ==
    /\ [](/\ (pc = "stream_done" \/ (mode = "download" /\ pc = "exit" /\ diag = "none"))
                => (reads # << >> /\ ZeroReads = {Len(reads)} /\ ReadErrors = {}
                        /\ WriteErrors = {})
          /\ ZeroReads # {} =>
                /\ ZeroReads = {Len(reads)}
                /\ pc \in {"stream_match", "stream_done", "exit"}
                /\ pc = "exit" => exit_code = Some(0) /\ diag = "none")
    /\ [][ZeroReads # {} => (reads' = reads /\ pc' \in {"stream_done", "exit"})]_vars
    /\ (pc = "stream_read") ~> (pc = "stream_done" \/ pc = "exit")

\* Two chunks, then the zero-length read, and the loop has ended.
C9_Witness ==
    /\ pc = "stream_done"
    /\ Len(reads) = 3
    /\ reads[3] = << "ok", 0 >>

(***************************************************************************)
(* The order of a download run: the output file exists only once an asset  *)
(* is selected and its response is held, and a run that ended in any       *)
(* failure before the transfer has created and written nothing.            *)
(***************************************************************************)
PreTransferFailures ==
    {"arguments", "GuessWebsiteFail", "InvalidRepository", "regex", "header",
     "http", "json_string", "deserialize", "not_found", "download"}

CreatedAfterRequest ==
    /\ file_exists => (mode = "download" /\ asset # None /\ response # None)
    /\ (pc = "exit" /\ mode = "download" /\ diag \in PreTransferFailures) =>
          /\ exit_code \notin {None, Some(0)}
          /\ ~file_exists
          /\ file_len = 0
          /\ writes = << >>

(***************************************************************************)
(* C10: a download run has no partial-success state.  The output file is   *)
(* created only after the listing was fetched and decoded, an asset was    *)
(* selected and the asset request succeeded; every failure before the      *)
(* transfer ends the run with a non-zero status and no file created or     *)
(* written; a run that has ended leaves either the whole body in the file  *)
(* (status 0) or, after a failure of the transfer itself, a part of it     *)
(* (status 1).                                                             *)
(***************************************************************************)
C10_NoPartialSuccess ==
    /\ CreatedAfterRequest
    /\ (pc = "exit" /\ file_exists) =>
          \/ exit_code = Some(0) /\ file_len = BodyLen
          \/ exit_code = Some(1) /\ diag \in {"read_error", "write_error"}

(***************************************************************************)
(* Vocabulary of the requests' properties.                                 *)
(***************************************************************************)
\* A header of the command line has no colon.
Malformed == \E k \in 1..Len(header_args) : ":" \notin { header_args[k][j] : j \in 1..Len(header_args[k]) }

\* pair is header split at its first colon.
IsFirstColonSplit(pair, header) ==
    /\ pair[1] \o << ":" >> \o pair[2] = header
    /\ \A j \in 1..Len(pair[1]) : pair[1][j] # ":"

\* The request's headers begin with the command line's, each split at its
\* first colon, in order.
CarriesCallerHeaders(request) ==
    /\ Len(request.headers) >= Len(header_args)
    /\ \A k \in 1..Len(header_args) :
          IsFirstColonSplit(request.headers[k], header_args[k])

AcceptPair == << << "A", "c", "c", "e", "p", "t" >>, << " ", "a", "p", "p", "l", "i", "c", "a", "t", "i", "o", "n", "/", "o", "c", "t", "e", "t", "-", "s", "t", "r", "e", "a", "m" >> >>

\* The scheme the repository string asks for.
DerivedScheme ==
    IF Len(repository_string) >= 7 /\ SubSeq(repository_string, 1, 7) = << "h", "t", "t", "p", ":", "/", "/" >>
       THEN << "h", "t", "t", "p" >> ELSE << "h", "t", "t", "p", "s" >>

(***************************************************************************)
(* C11: a header string without a colon, at any position of the header     *)
(* list, is fatal before any network call: no request is ever sent, the    *)
(* run gets no further than the listing request, which ends it with the    *)
(* header diagnostic and exit status 1, and the run never ends with status *)
(* 0.  The entry is not dropped: every request that is sent carries every  *)
(* header of the command line, split at its first colon.                   *)
(***************************************************************************)
C11_MalformedHeaderIsFatal ==
    /\ [](/\ Malformed =>
                /\ requests = << >>
                /\ pc \in {"main", "compile_pattern", "get_releases", "exit"}
                /\ pc = "exit" => exit_code \in {Some(1), Some(2)}
                /\ diag \in {"none", "arguments", "header"}
          /\ \A i \in 1..Len(requests) : CarriesCallerHeaders(requests[i]))
    /\ [][(Malformed /\ pc = "get_releases") =>
            /\ pc' = "exit" /\ exit_code' = Some(1) /\ diag' = "header"
            /\ requests' = requests]_vars

\* The second header has no colon: the run has ended at the listing request
\* with status 1 and nothing was sent.
C11_Witness ==
    /\ header_args = << HeaderTwoColons, HeaderNoColon >>
    /\ pc = "exit" /\ exit_code = Some(1) /\ diag = "header"
    /\ requests = << >>

(***************************************************************************)
(* C12: the repository's header list is the command line's until, in a     *)
(* download from GitHub, the step that makes the asset request appends     *)
(* "Accept: application/octet-stream" to it, once, after the asset was     *)
(* selected.  The listing request carries the command line's headers only; *)
(* the GitHub asset request carries them followed by the Accept header;    *)
(* for Gitea and GitLab the list never changes and the asset request       *)
(* carries the command line's headers only.                                *)
(***************************************************************************)
C12_AcceptOnlyForGithubAssetFetch ==
    /\ [](repository # None =>
            LET repo == Unwrap(repository)
                caller == [k \in 1..Len(header_args) |->
                              Unwrap(SplitOnceColon(header_args[k]))]
            IN  /\ Len(requests) <= 2
                /\ Len(requests) >= 1 => requests[1].headers = caller
                /\ repo.website # "GitHub" =>
                      /\ repo.headers = header_args
                      /\ Len(requests) = 2 => requests[2].headers = caller
                /\ repo.website = "GitHub" =>
                      /\ Len(requests) < 2 => repo.headers = header_args
                      /\ Len(requests) = 2 =>
                            /\ repo.headers = Append(header_args, AcceptOctetStream)
                            /\ requests[2].headers = Append(caller, AcceptPair))
    /\ [][(repository # None /\ repository' # repository) =>
            /\ pc = "asset_request" /\ mode = "download" /\ asset # None
            /\ Unwrap(repository).website = "GitHub"
            /\ Unwrap(repository').headers =
                  Append(Unwrap(repository).headers, AcceptOctetStream)
            /\ requests' = Append(requests, requests'[Len(requests')])
            /\ Len(requests') = 2]_vars

\* A GitHub download with one header on the command line: the asset request
\* carries it and then the Accept header.
C12_Witness ==
    /\ repository # None
    /\ Unwrap(repository).website = "GitHub"
    /\ header_args = << HeaderTwoColons >>
    /\ Len(requests) = 2
    /\ requests[1].headers = << << << "A" >>, << "b", ":", "c" >> >> >>
    /\ requests[2].headers = << << << "A" >>, << "b", ":", "c" >> >>, AcceptPair >>

(***************************************************************************)
(* The listing URL has the scheme of the repository string, for every      *)
(* website.                                                                *)
(***************************************************************************)
ListingUrlUsesScheme ==
    Len(requests) >= 1 =>
        LET repo == Unwrap(repository)
        IN  /\ SubSeq(requests[1].url, 1, Len(DerivedScheme) + 3)
                  = DerivedScheme \o << ":", "/", "/" >>
            /\ repo.website = "GitHub" =>
                  requests[1].url = DerivedScheme \o << ":", "/", "/", "a", "p", "i", ".", "g", "i", "t", "h", "u", "b", ".", "c", "o", "m", "/", "r", "e", "p", "o", "s", "/" >>
                      \o repo.owner \o << "/" >> \o repo.name \o << "/", "r", "e", "l", "e", "a", "s", "e", "s" >>

(***************************************************************************)
(* C13: every URL the program builds has the scheme of the repository      *)
(* string, "http" when it starts with "http://" and "https" otherwise; for *)
(* GitHub both the listing URL                                             *)
(* {scheme}://api.github.com/repos/{owner}/{name}/releases and the asset   *)
(* URL {scheme}://api.github.com/repos/{owner}/{name}/releases/assets/{id} *)
(* have it.                                                                *)
(***************************************************************************)
C13_UrlsUseDerivedScheme ==
    /\ ListingUrlUsesScheme
    /\ (Len(requests) = 2 /\ Unwrap(repository).website = "GitHub") =>
          LET repo == Unwrap(repository)
          IN  requests[2].url = DerivedScheme \o << ":", "/", "/", "a", "p", "i", ".", "g", "i", "t", "h", "u", "b", ".", "c", "o", "m", "/", "r", "e", "p", "o", "s", "/" >>
                  \o repo.owner \o << "/" >> \o repo.name \o << "/", "r", "e", "l", "e", "a", "s", "e", "s", "/", "a", "s", "s", "e", "t", "s", "/" >>
                  \o FormatId(Unwrap(asset).id)

(***************************************************************************)
(* Vocabulary of the argument parsing's properties.                        *)
(***************************************************************************)
\* Arguments::parse has run and the repository arguments decided its result.
Parsed == pc # "main" /\ diag # "arguments"

\* s is p, or "http://" and p, or "https://" and p, and then anything.
StartsWithAfterScheme(s, p) ==
    \E scheme \in {<< >>, << "h", "t", "t", "p", ":", "/", "/" >>, << "h", "t", "t", "p", "s", ":", "/", "/" >>} :
        /\ Len(s) >= Len(scheme) + Len(p)
        /\ SubSeq(s, 1, Len(scheme) + Len(p)) = scheme \o p

\* Where the slashes of a string are.
SlashesOf(s) == { k \in 1..Len(s) : s[k] = "/" }

(***************************************************************************)
(* C14: guess_website_type returns GitHub exactly when the repository      *)
(* string, after an optional "http://" or "https://", starts with          *)
(* "github.com/"; otherwise GitLab exactly when it starts with             *)
(* "gitlab.com/"; otherwise None, which ends the argument parsing with     *)
(* GuessWebsiteFail.  It never returns Gitea, and a host that only         *)
(* resembles github.com or gitlab.com yields None.                         *)
(***************************************************************************)
C14_GuessByPrefix ==
    (Parsed /\ website_type = None) =>
        LET expected ==
              IF StartsWithAfterScheme(repository_string, << "g", "i", "t", "h", "u", "b", ".", "c", "o", "m", "/" >>)
                 THEN Some("GitHub")
              ELSE IF StartsWithAfterScheme(repository_string, << "g", "i", "t", "l", "a", "b", ".", "c", "o", "m", "/" >>)
                 THEN Some("GitLab")
              ELSE None
        IN  /\ expected = None =>
                  /\ repository = None
                  /\ pc = "exit" /\ diag = "GuessWebsiteFail"
            /\ expected # None =>
                  /\ diag # "GuessWebsiteFail"
                  /\ repository # None => Unwrap(repository).website = Unwrap(expected)

(***************************************************************************)
(* C15 as stated: for every Gitea or GitLab repository string of the form  *)
(* host/seg1/.../segN/owner/name, with or without a scheme in front, the   *)
(* host with or without a port, N >= 0, parse_repository succeeds with the *)
(* host (and port) as origin, "/seg1/.../segN/" as sub_path ("/" when N is *)
(* 0) and the last two segments as owner and name.                         *)
(***************************************************************************)
GiteaFormParsed(hosts) ==
    (Parsed /\ website_type \in {Some("Gitea"), Some("GitLab")}) =>
        \A prefix \in Prefixes, host \in hosts, n \in 0..MaxSegments :
            repository_string = Compose(prefix, Some(host), n, Owner, Name) =>
                /\ repository # None
                /\ LET repo == Unwrap(repository)
                   IN  /\ repo.website = Unwrap(website_type)
                       /\ repo.origin = host
                       /\ repo.sub_path = << "/" >> \o Segments(n)
                       /\ repo.sub_path[1] = "/"
                       /\ repo.sub_path[Len(repo.sub_path)] = "/"
                       /\ repo.owner = Owner
                       /\ repo.name = Name
                       /\ prefix \o repo.origin \o repo.sub_path \o repo.owner
                              \o << "/" >> \o repo.name = repository_string
                       /\ repo.passed_string = repository_string

C15_Original == GiteaFormParsed(Hosts)

\* The hosts with a dot that is neither their first nor their last character.
HostsWithInnerDot ==
    { h \in Hosts : \E j \in 2..(Len(h) - 1) : h[j] = "." }

(***************************************************************************)
(* C15 amended: the same, for the hosts that contain a dot which is        *)
(* neither their first nor their last character, and the schemes "http://" *)
(* and "https://".                                                         *)
(***************************************************************************)
C15_Amended == GiteaFormParsed(HostsWithInnerDot)

\* "https://a.b:1/s/o/n" as a Gitea repository: origin "a.b:1", sub_path
\* "/s/".
C15_Witness ==
    /\ Parsed /\ website_type = Some("Gitea")
    /\ repository_string = Compose(HttpsPrefix, Some(HostDottedPort), 1, Owner, Name)
    /\ repository # None
    /\ Unwrap(repository).origin = << "a", ".", "b", ":", "1" >>
    /\ Unwrap(repository).sub_path = << "/", "s", "/" >>

(***************************************************************************)
(* C16: with the website type GitHub given, parse_repository succeeds for  *)
(* every repository string "<owner>/<name>" with owner and name not empty  *)
(* and without "/", with or without "github.com/" (itself with or without  *)
(* a scheme) in front: owner and name are returned as given, origin is     *)
(* "github.com", sub_path "/" and passed_string the string as typed.       *)
(* Every string with more than two path segments, or with an empty owner   *)
(* or name, fails with InvalidRepository.                                  *)
(***************************************************************************)
C16_GithubOwnerName ==
    (Parsed /\ website_type = Some("GitHub")) =>
        LET fronts == { f \in {<< >>, << "g", "i", "t", "h", "u", "b", ".", "c", "o", "m", "/" >>, << "h", "t", "t", "p", ":", "/", "/", "g", "i", "t", "h", "u", "b", ".", "c", "o", "m", "/" >>,
                               << "h", "t", "t", "p", "s", ":", "/", "/", "g", "i", "t", "h", "u", "b", ".", "c", "o", "m", "/" >>} :
                          /\ Len(repository_string) >= Len(f)
                          /\ SubSeq(repository_string, 1, Len(f)) = f }
            rest(f) == SubSeq(repository_string, Len(f) + 1, Len(repository_string))
            \* exactly two segments, neither empty
            good == { f \in fronts :
                        /\ Cardinality(SlashesOf(rest(f))) = 1
                        /\ SlashesOf(rest(f)) \cap {1, Len(rest(f))} = {} }
            \* more than two segments, or an empty one
            bad == { f \in fronts :
                        \/ Cardinality(SlashesOf(rest(f))) > 1
                        \/ SlashesOf(rest(f)) \cap {1, Len(rest(f))} # {} }
        IN  /\ \A f \in good :
                  /\ repository # None
                  /\ LET repo == Unwrap(repository)
                         slash == CHOOSE k \in SlashesOf(rest(f)) : TRUE
                     IN  /\ repo.website = "GitHub"
                         /\ repo.owner = SubSeq(rest(f), 1, slash - 1)
                         /\ repo.name = SubSeq(rest(f), slash + 1, Len(rest(f)))
                         /\ repo.origin = << "g", "i", "t", "h", "u", "b", ".", "c", "o", "m" >>
                         /\ repo.sub_path = << "/" >>
                         /\ repo.passed_string = repository_string
            /\ (good = {} /\ bad # {}) =>
                  /\ repository = None
                  /\ pc = "exit" /\ exit_code = Some(2)
                  /\ diag = "InvalidRepository"

\* "https://github.com/o/n" with the website type GitHub: owner "o", name
\* "n".
C16_Witness ==
    /\ Parsed /\ website_type = Some("GitHub")
    /\ repository_string = << "h", "t", "t", "p", "s", ":", "/", "/", "g", "i", "t", "h", "u", "b", ".", "c", "o", "m", "/", "o", "/", "n" >>
    /\ repository # None
    /\ Unwrap(repository).owner = << "o" >>
    /\ Unwrap(repository).name = << "n" >>
    /\ Unwrap(repository).origin = << "g", "i", "t", "h", "u", "b", ".", "c", "o", "m" >>

(***************************************************************************)
(* C17: find_assets_in_release returns every asset of the release whose    *)
(* name matches the pattern, each once, in the release's asset order, and  *)
(* no other asset: the n-th name the assets query prints is the name of    *)
(* the n-th matching asset of the selected release.                        *)
(***************************************************************************)
C17_AllMatchingInOrder ==
    (AssetsSelected /\ diag = "none") =>
        LET assets == releases[Unwrap(release)].assets
            hits == { k \in 1..Len(assets) : IsMatch(Compiled, assets[k].name) }
            nth(n) == CHOOSE k \in hits : Cardinality({ j \in hits : j <= k }) = n
        IN  /\ Len(stdout) = Cardinality(hits)
            /\ \A n \in 1..Len(stdout) : stdout[n] = assets[nth(n)].name

\* The release lists a.zip before a.tar.gz, both match, and they are printed
\* in that order.
C17_Witness ==
    /\ AssetsSelected /\ diag = "none"
    /\ releases[Unwrap(release)].assets = << AssetZip, AssetTar >>
    /\ stdout = << "a.zip", "a.tar.gz" >>

(***************************************************************************)
(* C19: find_asset looks into the one release find_release chose.  When    *)
(* find_release returns None so does find_asset; when the chosen release   *)
(* has no asset that matches, the result is None (and the download ends    *)
(* with the not-found diagnostic), whatever the later releases hold; an    *)
(* asset that is returned is one of the chosen release.                    *)
(***************************************************************************)
C19_OnlyTheChosenRelease ==
    DownloadSelected =>
        /\ release = None => asset = None
        /\ release # None =>
              LET assets == releases[Unwrap(release)].assets
              IN  /\ (\A k \in 1..Len(assets) : ~IsMatch(Compiled, assets[k].name)) =>
                        /\ asset = None
                        /\ pc = "exit" /\ exit_code = Some(1) /\ diag = "not_found"
                  /\ asset # None =>
                        \E k \in 1..Len(assets) : assets[k] = Unwrap(asset)

\* The first release passes the policy and has no matching asset, the second
\* passes it too and has one: nothing is returned.
C19_Witness ==
    /\ DownloadSelected /\ tag = None /\ ~allow_prerelease
    /\ Len(releases) = 2
    /\ ~releases[1].prerelease /\ ~releases[2].prerelease
    /\ release = Some(1)
    /\ releases[1].assets = << AssetTar >>
    /\ \E k \in DOMAIN releases[2].assets :
          IsMatch(Compiled, releases[2].assets[k].name)
    /\ ~IsMatch(Compiled, "a.tar.gz")
    /\ asset = None
    /\ pc = "exit" /\ diag = "not_found"

(***************************************************************************)
(* C20: when stream_response_into_file completes normally, the sink has    *)
(* accepted exactly the bytes that were read, in order: every chunk was    *)
(* taken whole, also when a write call takes fewer bytes than it is given, *)
(* and the file holds as many bytes as the byte counter says.              *)
(***************************************************************************)
C20_AllBytesWritten ==
    pc = "stream_done" =>
        /\ Offered = ChunkSizes
        /\ \A k \in 1..Len(writes) : writes[k][2] = "ok" /\ writes[k][3] = writes[k][1]
        /\ Accepted = SumSeq(ChunkSizes)
        /\ file_len = bytes_downloaded

====
